---- MODULE Spec2Model ----
(***************************************************************************)
(* Model of font-merge: FontMerger.merge_fonts (font_merger.py) as a step  *)
(* machine over its pipeline (subset, temporary files, strategy stages,    *)
(* naming, ligature restoration, save, cleanup), and the Qt front end of   *)
(* main.py / font_selector.py (selectors, merge buttons, worker thread).   *)
(*                                                                         *)
(* Spec       : one call of FontMerger.merge_fonts with arbitrary          *)
(*              arguments.                                                 *)
(* SpecCmap   : the same call with fonts and selections that differ in     *)
(*              their code points.                                         *)
(* SpecUI     : the window with its two selectors and the merge worker.    *)
(* SpecHelper : one direct call of a helper method of FontMerger.          *)
(*                                                                         *)
(* fontTools calls (TTFont load/save, Subsetter.subset, Merger.merge) are  *)
(* modelled by their effect on the tables the program reads or writes;     *)
(* each of them may raise, which is a choice of the environment recorded   *)
(* in the variable faults.                                                 *)
(***************************************************************************)
EXTENDS Integers, Sequences, FiniteSets, TLC

\* ------------------------------------------------------------------ bounds
MaxFeatures == 1
MaxLigGlyphs == 1

\* --------------------------------------------------------------- constants
NoName == [kind |-> "None"]
Absent == [kind |-> "Absent"]
Partial == [kind |-> "Partial"]
None == [kind |-> "None"]

UPMs == {1000, 2048}
FeatureTags == {"liga", "kern"}
\* a Python str is the sequence of its characters
Str(chars) == [kind |-> "str", chars |-> chars]

\* font_name: None, the empty string, or a name with a space and a hyphen
FontNames == {NoName, Str(<<>>), Str(<<"M", "y", " ", "F", "-", "x">>)}
MergeOptions == {0, 1, 2}

\* all feature-record lists (by tag) of length at most n
RECURSIVE FeatureLists(_)
FeatureLists(n) ==
    IF n = 0 THEN {<<>>}
    ELSE LET shorter == FeatureLists(n - 1)
         IN  shorter \cup {Append(l, t) : l \in {s \in shorter : Len(s) = n - 1}, t \in FeatureTags}

\* the value of font["GSUB"]: no table, a table whose FeatureList is None,
\* or a table with a FeatureList object, which has the two attributes
\* FeatureRecord (the records, here by tag) and FeatureCount; a font that was
\* loaded or merged has FeatureCount = len(FeatureRecord)
NoTable == [kind |-> "NoTable"]
NoFeatureList == [kind |-> "NoFeatureList"]
FeatureList(recs) == [kind |-> "FeatureList", recs |-> recs, FeatureCount |-> Len(recs)]
GsubValues == {NoTable, NoFeatureList} \cup {FeatureList(l) : l \in FeatureLists(MaxFeatures)}

\* the value of font["GPOS"]: no table, or a table
GposTable == [kind |-> "GPOS"]
GposValues == {NoTable, GposTable}

\* ------------------------------------------------- name, OS/2 and head tables
\* the two (platformID, platEncID, langID) triples _update_font_name writes,
\* and a third one a font may carry (Windows, Unicode BMP, Korean)
platforms == << <<3, 1, 1033>>, <<1, 0, 0>> >>
OtherPlatform == <<3, 1, 1042>>

NameRecord(nameID, platform, string) ==
    [nameID |-> nameID, platformID |-> platform[1], platEncID |-> platform[2],
     langID |-> platform[3], string |-> string]

OldName == <<"O", "l", "d">>

\* font["name"]: no table, or a table with its records (name_table.names)
NameTable(records) == [kind |-> "name", names |-> records]

\* the name records of the source fonts of a merge_fonts call
SourceNames ==
    { NameRecord(1, platforms[1], OldName), NameRecord(3, OtherPlatform, OldName) }

\* a 32-bit field of the OS/2 table or of head is the set of the positions of
\* its bits that are 1: x | y is the union, x & y the intersection
BitOr(x, y) == x \cup y

\* the OS/2 table of the source fonts; ulCodePageRange1 exists from version 1
OS2Table(version, range1, range2, codePage1, weight, width) ==
    [kind |-> "OS/2", version |-> version,
     ulUnicodeRange1 |-> range1, ulUnicodeRange2 |-> range2,
     ulUnicodeRange3 |-> {}, ulUnicodeRange4 |-> {31},
     ulCodePageRange1 |-> codePage1,
     usWeightClass |-> weight, usWidthClass |-> width]

SourceOS2 == OS2Table(4, {0, 31}, {25}, {0}, 700, 5)
SourceMacStyle == {0}

\* the code points the cmap of a source font maps: A, B and C
SourceCmap == {65, 66, 67}

\* a font file as far as merge_fonts looks at it
FontFiles ==
    [kind : {"font"}, upm : UPMs, gsub : GsubValues, gpos : GposValues, dsig : BOOLEAN,
     names : {NameTable(SourceNames)}, os2 : {SourceOS2}, macStyle : {SourceMacStyle},
     cmap : {SourceCmap}]

\* ---------------------------------------------------------- charset input
\* one entry of a charset list is a Python str, modelled as the sequence of
\* its code units: chr(65) is <<65>>, "lig_0" is <<108, 105, 103, 95, 48>>
Chr(code) == <<code>>
LigToken(i) == <<108, 105, 103, 95, 48 + i>>

RangeUpper == "UpperLatin"
RangeLigature == "StdLigatures"
RangeHangul == "Hangul"

\* the charset dictionaries handed to merge_fonts: range name -> list of
\* entries, in insertion order, modelled as a sequence of <<name, entries>>
CharsetDicts ==
    { <<>>,
      << <<RangeUpper, <<>>>> >>,
      << <<RangeLigature, <<LigToken(0)>>>> >>,
      << <<RangeUpper, <<Chr(65), Chr(66)>>>>, <<RangeLigature, <<LigToken(0)>>>> >> }

\* all_chars: the lists of selected_charsets.values(), concatenated
RECURSIVE AllChars(_)
AllChars(dict) ==
    IF dict = <<>> THEN <<>> ELSE Head(dict)[2] \o AllChars(Tail(dict))

\* unicodes: ord(char) of the entries of length 1, the others are skipped
RECURSIVE Unicodes(_)
Unicodes(chars) ==
    IF chars = <<>> THEN <<>>
    ELSE IF Len(Head(chars)) = 1
         THEN <<Head(chars)[1]>> \o Unicodes(Tail(chars))
         ELSE Unicodes(Tail(chars))

\* ------------------------------------------------------------- exceptions
\* an exception message is the sequence of its parts, outermost first;
\* f"prefix: {str(e)}" puts the prefix in front of the message of e
Wrap(prefix, msg) == <<prefix>> \o msg
Exc(msg) == [kind |-> "Exception", msg |-> msg]
Contains(msg, part) == \E i \in 1..Len(msg) : msg[i] = part

MsgMergeFonts == "font merge error"
MsgMergeFontFiles == "font file merge error"
MsgSubset == "subset error"
MsgNoCharset1 == "cannot extract charset from font 1"
MsgNoCharset2 == "cannot extract charset from font 2"
MsgNotEqual == "Expected all items to be equal"
MsgMergeOther == "merge primitive error"
MsgLoad == "cannot load font"
MsgSave == "cannot save font"
MsgName == "name table error"

\* subsetter.options.layout_features = ["*"]: every feature tag is asked for
layout_features == {"*"}

\* the feature records Subsetter.subset leaves of a feature list: those whose
\* tag the options ask for and whose lookups still act on a glyph of the
\* subset; live is the set of the positions of the latter, which depends on
\* the glyphs of the font and is given by the environment
RECURSIVE subset_features(_, _, _)
subset_features(recs, live, i) ==
    IF i > Len(recs) THEN <<>>
    ELSE (IF i \in live /\ ("*" \in layout_features \/ recs[i] \in layout_features)
          THEN <<recs[i]>> ELSE <<>>)
         \o subset_features(recs, live, i + 1)

subset_gsub(gsub, live) ==
    IF gsub.kind = "FeatureList" THEN FeatureList(subset_features(gsub.recs, live, 1)) ELSE gsub

\* the sets of positions the environment can give for a font: the selection
\* leaves every feature of the font a glyph to act on, or none of them
LiveChoices(font) ==
    IF font.gsub.kind = "FeatureList" /\ font.gsub.recs # <<>>
    THEN {1..Len(font.gsub.recs), {}}
    ELSE {{}}

\* subsetter.populate(unicodes=unicodes); subsetter.subset(font): the cmap
\* keeps the requested code points the font maps
subset_cmap(cmap, unicodes) == {code \in cmap : \E i \in 1..Len(unicodes) : unicodes[i] = code}

\* _create_font_subset: None, the subset font, or an exception.  fault is
\* what the environment makes fail: "none", "load" (TTFont) or "subset"
\* (Subsetter.subset).  head.unitsPerEm, name, OS/2 and GPOS are not touched.
create_font_subset(font, selected_charsets, fault, live) ==
    IF selected_charsets = <<>> THEN None
    ELSE IF fault = "load" THEN [kind |-> "raise", msg |-> <<MsgSubset, MsgLoad>>]
    ELSE IF AllChars(selected_charsets) = <<>> THEN None
    ELSE IF Unicodes(AllChars(selected_charsets)) = <<>> THEN None
    ELSE IF fault = "subset" THEN [kind |-> "raise", msg |-> <<MsgSubset, MsgSubset>>]
    ELSE [font EXCEPT !.cmap = subset_cmap(font.cmap, Unicodes(AllChars(selected_charsets))),
                      !.gsub = subset_gsub(font.gsub, live)]

\* ------------------------------------------------------ the merge primitive
\* GSUB of Merger.merge's result: the feature records of the fonts that have
\* a feature list, concatenated (repeated tags are kept)
MergedGsub(g1, g2) ==
    IF g1 = NoTable THEN g2
    ELSE IF g2 = NoTable THEN g1
    ELSE IF g1 = NoFeatureList THEN g2
    ELSE IF g2 = NoFeatureList THEN g1
    ELSE FeatureList(g1.recs \o g2.recs)

MergedGpos(p1, p2) == IF p1 = NoTable THEN p2 ELSE p1

\* cmap of Merger.merge's result: the code points of both fonts
MergedCmap_first(c1, c2) == c1

MergedCmap(c1, c2) == c1 \cup c2

\* OS/2 of Merger.merge's result: the first font's table with the Unicode and
\* code page range bits of both
MergedOS2(o1, o2) ==
    IF o1 = NoTable THEN o2
    ELSE IF o2 = NoTable THEN o1
    ELSE [o1 EXCEPT !.ulUnicodeRange1 = BitOr(o1.ulUnicodeRange1, o2.ulUnicodeRange1),
                    !.ulUnicodeRange2 = BitOr(o1.ulUnicodeRange2, o2.ulUnicodeRange2),
                    !.ulUnicodeRange3 = BitOr(o1.ulUnicodeRange3, o2.ulUnicodeRange3),
                    !.ulUnicodeRange4 = BitOr(o1.ulUnicodeRange4, o2.ulUnicodeRange4),
                    !.ulCodePageRange1 = BitOr(o1.ulCodePageRange1, o2.ulCodePageRange1)]

\* Merger.merge([path1, path2]): head.unitsPerEm must be equal in all fonts;
\* other is the environment's choice of another failure inside the library.
\* DSIG is a table the merger does not know how to merge and leaves out.
MergerMerge(f1, f2, other) ==
    IF f1.upm # f2.upm THEN [kind |-> "raise", msg |-> <<MsgNotEqual>>]
    ELSE IF other THEN [kind |-> "raise", msg |-> <<MsgMergeOther>>]
    ELSE [kind |-> "font",
          upm |-> f1.upm,
          gsub |-> MergedGsub(f1.gsub, f2.gsub),
          gpos |-> MergedGpos(f1.gpos, f2.gpos),
          dsig |-> FALSE,
          names |-> f1.names,
          os2 |-> MergedOS2(f1.os2, f2.os2),
          macStyle |-> f1.macStyle,
          cmap |-> MergedCmap(f1.cmap, f2.cmap)]

\* ---------------------------------------------------------- ligature scorer
StylisticSets == {"ss01", "ss02", "ss03", "ss04", "ss05", "ss06", "ss07", "ss08", "ss09", "ss10"}

\* the if/elif chain over feature_tag in _calculate_ligature_score
feature_weight(feature_tag) ==
    CASE feature_tag = "liga" -> 100
      [] feature_tag = "dlig" -> 50
      [] feature_tag = "clig" -> 50
      [] feature_tag = "rlig" -> 30
      [] feature_tag = "calt" -> 20
      [] feature_tag \in {"kern", "curs"} -> 10
      [] feature_tag \in StylisticSets -> 5
      [] OTHER -> 0

\* the loop over FeatureList.FeatureRecord
RECURSIVE feature_score(_)
feature_score(recs) ==
    IF recs = <<>> THEN 0 ELSE feature_weight(Head(recs)) + feature_score(Tail(recs))

\* ligature_glyphs is the number of glyph names that contain one of the
\* patterns
glyph_bonus_at_least(ligature_glyphs) ==
    IF ligature_glyphs >= 50 THEN 25
    ELSE IF ligature_glyphs >= 20 THEN 15
    ELSE IF ligature_glyphs >= 10 THEN 10
    ELSE 0

glyph_bonus(ligature_glyphs) ==
    IF ligature_glyphs > 50 THEN 25
    ELSE IF ligature_glyphs > 20 THEN 15
    ELSE IF ligature_glyphs > 10 THEN 10
    ELSE 0

\* _calculate_ligature_score: 0 is returned at once for a font without GSUB
\* and for a GSUB without feature list; an exception of font.getGlyphSet()
\* is swallowed and leaves the score of the features
calculate_ligature_score(font) ==
    IF font.gsub = NoTable THEN 0
    ELSE IF font.gsub.kind # "FeatureList" THEN 0
    ELSE feature_score(font.gsub.recs)
         + (IF font.glyph_set_readable THEN glyph_bonus(font.ligature_names) ELSE 0)

\* determine_optimal_font_order: fault is the TTFont call that raises, if any
determine_optimal_font_order_on_tie(font1, font2, fault) ==
    IF fault # "none"
    THEN [base |-> "font1_path", secondary |-> "font2_path", should_swap |-> FALSE]
    ELSE IF calculate_ligature_score(font2) >= calculate_ligature_score(font1)
         THEN [base |-> "font2_path", secondary |-> "font1_path", should_swap |-> TRUE]
         ELSE [base |-> "font1_path", secondary |-> "font2_path", should_swap |-> FALSE]

determine_optimal_font_order(font1, font2, fault) ==
    IF fault # "none"
    THEN [base |-> "font1_path", secondary |-> "font2_path", should_swap |-> FALSE]
    ELSE IF calculate_ligature_score(font2) > calculate_ligature_score(font1)
         THEN [base |-> "font2_path", secondary |-> "font1_path", should_swap |-> TRUE]
         ELSE [base |-> "font1_path", secondary |-> "font2_path", should_swap |-> FALSE]

\* ------------------------------------------------------ ligature restoration
ScoreFeatures == {"liga", "dlig", "clig", "rlig", "hlig"}
LigatureFeatures == {"liga", "dlig", "clig", "rlig", "hlig", "calt"}

RECURSIVE CountIn(_, _)
CountIn(recs, tags) ==
    IF recs = <<>> THEN 0
    ELSE (IF Head(recs) \in tags THEN 1 ELSE 0) + CountIn(Tail(recs), tags)

\* _calculate_ligature_score_from_font
calculate_ligature_score_from_font(font) ==
    (IF font.gsub.kind = "FeatureList" THEN 10 * CountIn(font.gsub.recs, ScoreFeatures) ELSE 0)
    + (IF font.gpos # NoTable THEN 5 ELSE 0)

\* the source records appended by the loop of _merge_ligature_features:
\* existing is computed once, before the loop
RECURSIVE MissingLigatureRecords(_, _)
MissingLigatureRecords(source_recs, existing) ==
    IF source_recs = <<>> THEN <<>>
    ELSE (IF Head(source_recs) \in LigatureFeatures /\ Head(source_recs) \notin existing
          THEN <<Head(source_recs)>> ELSE <<>>)
         \o MissingLigatureRecords(Tail(source_recs), existing)

\* _merge_ligature_features: the GSUB of the target afterwards.  In the loop
\* the first missing record is appended to FeatureList.FeatureRecord; the next
\* statement reads FeatureList.Feature, an attribute a FeatureList object does
\* not have (the Feature table hangs on each FeatureRecord), so AttributeError
\* is raised and caught by the handler of the method: the loop ends there and
\* FeatureCount is not set again
merge_ligature_features(target_gsub, source_gsub) ==
    IF source_gsub.kind # "FeatureList" THEN target_gsub
    ELSE IF target_gsub.kind # "FeatureList" THEN source_gsub
    ELSE LET existing == {target_gsub.recs[i] : i \in 1..Len(target_gsub.recs)}
             missing == MissingLigatureRecords(source_gsub.recs, existing)
         IN  IF missing = <<>> THEN target_gsub
             ELSE [target_gsub EXCEPT !.recs = Append(target_gsub.recs, Head(missing))]

\* _preserve_ligature_features, the GSUB part
preserve_gsub(merged_font, source_font) ==
    IF source_font.gsub = NoTable THEN merged_font
    ELSE IF merged_font.gsub = NoTable
         THEN [merged_font EXCEPT !.gsub = source_font.gsub]
         ELSE [merged_font EXCEPT !.gsub = merge_ligature_features(merged_font.gsub, source_font.gsub)]

\* _preserve_ligature_features, the GPOS part
preserve_gpos(merged_font, source_font) ==
    IF source_font.gpos # NoTable /\ merged_font.gpos = NoTable
    THEN [merged_font EXCEPT !.gpos = source_font.gpos]
    ELSE merged_font

preserve_ligature_features(merged_font, source_font) ==
    preserve_gpos(preserve_gsub(merged_font, source_font), source_font)

\* the ligature_source chosen by _restore_ligature_support, or None
ligature_source_higher_score(base_font, secondary_font) ==
    IF calculate_ligature_score_from_font(base_font) = 0
       /\ calculate_ligature_score_from_font(secondary_font) = 0
    THEN None
    ELSE IF calculate_ligature_score_from_font(secondary_font)
            > calculate_ligature_score_from_font(base_font)
         THEN secondary_font
         ELSE base_font

ligature_source(base_font, secondary_font) ==
    IF calculate_ligature_score_from_font(base_font) > 0 THEN base_font
    ELSE IF calculate_ligature_score_from_font(secondary_font) > 0 THEN secondary_font
    ELSE None

\* _restore_ligature_support once both source files are loaded
restore_ligature_support(merged_font, base_font, secondary_font) ==
    LET source == ligature_source(base_font, secondary_font)
    IN  IF source = None THEN merged_font
        ELSE preserve_ligature_features(merged_font, source)

\* ------------------------------------------------------------------- state
TempNames == {"subset1", "subset2", "adjusted1", "adjusted2", "simplified1", "simplified2"}

VARIABLES
    pc,          \* where merge_fonts is
    args,        \* the arguments of the call
    subset1,     \* font1_subset
    subset2,     \* font2_subset
    tmp,         \* the temporary files: name -> content, Absent when there is none
    created,     \* the temporary files created by this call
    stages,      \* the strategy stages attempted so far, with their outcome
    mergeCalls,  \* the invocations of Merger.merge so far, with their configuration
    merged,      \* merged_font
    pending,     \* the exception on its way through the finally block, or None
    output,      \* the file at output_path
    result,      \* "running", "True" (returned) or "raised"
    error,       \* the message of the exception merge_fonts raised
    faults,      \* the failures the environment has injected in this call
    steps        \* the pipeline steps merge_fonts has run so far, in order

coreVars == <<pc, args, subset1, subset2, tmp, created, stages, mergeCalls,
              merged, pending, output, result, error, faults, steps>>

\* the window of main.py with its two FontSelector widgets
VARIABLES
    sel,            \* side -> the state of the FontSelector on that side
    buttonsEnabled, \* merge_ttf_button / merge_woff2_button are enabled
    progressShown,  \* the modal progress dialog is on screen
    worker,         \* "none", "running", "finished" or "terminated"
    request,        \* the arguments the worker was created with
    signals,        \* finished(success, message) emitted and not yet handled
    dialog,         \* the last message box shown
    saveFile        \* the file at save_path

uiVars == <<sel, buttonsEnabled, progressShown, worker, request, signals, dialog, saveFile>>

\* one direct call of a helper method of FontMerger: its arguments and, once
\* it has returned, its result
VARIABLE helper

vars == <<coreVars, uiVars, helper>>

NoArgs == [kind |-> "None"]

CoreInit ==
    /\ pc = "idle"
    /\ args = NoArgs
    /\ subset1 = None
    /\ subset2 = None
    /\ tmp = [n \in TempNames |-> Absent]
    /\ created = {}
    /\ stages = <<>>
    /\ mergeCalls = <<>>
    /\ merged = None
    /\ pending = None
    /\ output = Absent
    /\ result = "running"
    /\ error = <<>>
    /\ faults = {}
    /\ steps = <<>>

\* merge_fonts raises from its outer try block: nothing is cleaned up there
RaiseOuter(msg) ==
    /\ pc' = "done"
    /\ result' = "raised"
    /\ error' = Wrap(MsgMergeFonts, msg)

\* a charset dictionary yields at least one code point
Usable(dict) == Unicodes(AllChars(dict)) # <<>>

DefaultFont ==
    [kind |-> "font", upm |-> 1000, gsub |-> FeatureList(<<"liga">>), gpos |-> NoTable,
     dsig |-> FALSE, names |-> NameTable(SourceNames), os2 |-> SourceOS2,
     macStyle |-> SourceMacStyle, cmap |-> SourceCmap]

\* the arguments of the calls of merge_fonts: every pair of fonts with two
\* selections that yield a subset, and one pair of fonts with every other pair
\* of selections; DSIG is looked at by the lenient strategy only
CallArgs ==
    {a \in [kind : {"args"}, font1 : FontFiles, font1_charsets : CharsetDicts,
            font2 : FontFiles, font2_charsets : CharsetDicts,
            merge_option : MergeOptions, font_name : FontNames] :
        /\ (~Usable(a.font1_charsets) \/ ~Usable(a.font2_charsets))
              => (a.font1 = DefaultFont /\ a.font2 = DefaultFont)
        /\ (a.merge_option # 2) => (~a.font1.dsig /\ ~a.font2.dsig)}

\* merge_fonts(font1_path, font1_charsets, font2_path, font2_charsets,
\*             output_path, merge_option, font_name)
CallWith(a) ==
    /\ args' = a
    /\ pc' = "subset1"
    /\ UNCHANGED <<subset1, subset2, tmp, created, stages, mergeCalls, merged,
                   pending, output, result, error, faults, steps>>
    /\ UNCHANGED <<uiVars, helper>>

Call ==
    /\ pc = "idle"
    /\ \E a \in CallArgs : CallWith(a)

\* calls of merge_fonts with fonts that map different code points and with
\* selections that differ between the two fonts
CmapFonts ==
    {[DefaultFont EXCEPT !.cmap = cmap] : cmap \in {SourceCmap, {66, 44032}}}

CmapDicts ==
    { << <<RangeUpper, <<Chr(65), Chr(66)>>>> >>,
      << <<RangeUpper, <<Chr(66)>>>>, <<RangeHangul, <<Chr(44032)>>>> >>,
      << <<RangeUpper, <<Chr(67)>>>>, <<RangeLigature, <<LigToken(0)>>>> >> }

CmapArgs ==
    [kind : {"args"}, font1 : CmapFonts, font1_charsets : CmapDicts,
     font2 : CmapFonts, font2_charsets : CmapDicts,
     merge_option : MergeOptions, font_name : FontNames]

CallCmap ==
    /\ pc = "idle"
    /\ \E a \in CmapArgs : CallWith(a)

\* font1_subset = self._create_font_subset(font1_path, font1_charsets)
Subset1 ==
    /\ pc = "subset1"
    /\ \E fault \in {"none", "load", "subset"}, live \in LiveChoices(args.font1) :
          LET r == create_font_subset(args.font1, args.font1_charsets, fault, live)
          IN  /\ (fault # "none") => r.kind = "raise"
              /\ (r.kind # "font") => live = {}
              /\ faults' = IF fault = "none" THEN faults ELSE faults \cup {"subset1"}
              /\ IF r.kind = "font"
                 THEN /\ subset1' = r
                      /\ pc' = "subset2"
                      /\ UNCHANGED <<result, error>>
                 ELSE /\ RaiseOuter(IF r.kind = "None" THEN <<MsgNoCharset1>> ELSE r.msg)
                      /\ UNCHANGED subset1
    /\ steps' = Append(steps, "subset1")
    /\ UNCHANGED <<args, subset2, tmp, created, stages, mergeCalls, merged, pending, output>>
    /\ UNCHANGED <<uiVars, helper>>

\* font2_subset = self._create_font_subset(font2_path, font2_charsets)
Subset2 ==
    /\ pc = "subset2"
    /\ \E fault \in {"none", "load", "subset"}, live \in LiveChoices(args.font2) :
          LET r == create_font_subset(args.font2, args.font2_charsets, fault, live)
          IN  /\ (fault # "none") => r.kind = "raise"
              /\ (r.kind # "font") => live = {}
              /\ faults' = IF fault = "none" THEN faults ELSE faults \cup {"subset2"}
              /\ IF r.kind = "font"
                 THEN /\ subset2' = r
                      /\ pc' = "save1"
                      /\ UNCHANGED <<result, error>>
                 ELSE /\ RaiseOuter(IF r.kind = "None" THEN <<MsgNoCharset2>> ELSE r.msg)
                      /\ UNCHANGED subset2
    /\ steps' = Append(steps, "subset2")
    /\ UNCHANGED <<args, subset1, tmp, created, stages, mergeCalls, merged, pending, output>>
    /\ UNCHANGED <<uiVars, helper>>

\* with NamedTemporaryFile(delete=False) as temp1: font1_subset.save(temp1.name)
\* the file exists from the moment NamedTemporaryFile returns
SaveSubset1 ==
    /\ pc = "save1"
    /\ created' = created \cup {"subset1"}
    /\ \E ok \in BOOLEAN :
          IF ok
          THEN /\ tmp' = [tmp EXCEPT !["subset1"] = subset1]
               /\ pc' = "save2"
               /\ UNCHANGED <<result, error, faults>>
          ELSE /\ tmp' = [tmp EXCEPT !["subset1"] = Partial]
               /\ faults' = faults \cup {"save1"}
               /\ RaiseOuter(<<MsgSave>>)
    /\ UNCHANGED <<args, subset1, subset2, stages, mergeCalls, merged, pending, output, steps>>
    /\ UNCHANGED <<uiVars, helper>>

\* _merge_font_files: the stage its dispatch on merge_option starts with
first_stage_unify_by_default(merge_option) ==
    IF merge_option = 2 THEN "exact" ELSE "unify_prepare"

first_stage(merge_option) ==
    IF merge_option = 1 THEN "unify_prepare" ELSE "exact"

\* with NamedTemporaryFile(delete=False) as temp2: font2_subset.save(temp2.name)
\* then the inner try block is entered with _merge_font_files
SaveSubset2 ==
    /\ pc = "save2"
    /\ created' = created \cup {"subset2"}
    /\ \E ok \in BOOLEAN :
          IF ok
          THEN /\ tmp' = [tmp EXCEPT !["subset2"] = subset2]
               /\ pc' = first_stage(args.merge_option)
               /\ UNCHANGED <<result, error, faults>>
          ELSE /\ tmp' = [tmp EXCEPT !["subset2"] = Partial]
               /\ faults' = faults \cup {"save2"}
               /\ RaiseOuter(<<MsgSave>>)
    /\ UNCHANGED <<args, subset1, subset2, stages, mergeCalls, merged, pending, output, steps>>
    /\ UNCHANGED <<uiVars, helper>>

\* a stage has raised msg: _merge_with_lenient_options goes on with its next
\* stage; otherwise _merge_font_files wraps the exception and raises it into
\* the finally block of merge_fonts
StageFails_always_escalate(stage, msg, next) ==
    /\ stages' = Append(stages, [stage |-> stage, ok |-> FALSE, msg |-> msg])
    /\ IF next # "none"
       THEN /\ pc' = next
            /\ UNCHANGED <<pending, steps>>
       ELSE /\ pc' = "finally"
            /\ pending' = Exc(Wrap(MsgMergeFontFiles, msg))
            /\ steps' = Append(steps, "merge")
    /\ UNCHANGED merged

StageFails(stage, msg, next) ==
    /\ stages' = Append(stages, [stage |-> stage, ok |-> FALSE, msg |-> msg])
    /\ IF args.merge_option = 2 /\ next # "none"
       THEN /\ pc' = next
            /\ UNCHANGED <<pending, steps>>
       ELSE /\ pc' = "finally"
            /\ pending' = Exc(Wrap(MsgMergeFontFiles, msg))
            /\ steps' = Append(steps, "merge")
    /\ UNCHANGED merged

\* a stage returns the merged font
StageSucceeds(stage, font) ==
    /\ stages' = Append(stages, [stage |-> stage, ok |-> TRUE, msg |-> <<>>])
    /\ merged' = font
    /\ pc' = "name"
    /\ steps' = Append(steps, "merge")
    /\ UNCHANGED pending

MergeCall(stage, f1, f2, dup) ==
    [stage |-> stage, font1 |-> f1, font2 |-> f2,
     duplicateGlyphsPerFont |-> dup, drop_tables |-> {}]

\* _merge_with_default_options
ExactStage ==
    /\ pc = "exact"
    /\ mergeCalls' = Append(mergeCalls, MergeCall("exact", tmp["subset1"], tmp["subset2"], TRUE))
    /\ \E other \in BOOLEAN :
          LET r == MergerMerge(tmp["subset1"], tmp["subset2"], other)
          IN  /\ other => (r.kind = "raise" /\ r.msg = <<MsgMergeOther>>)
              /\ faults' = IF other THEN faults \cup {"merge_exact"} ELSE faults
              /\ IF r.kind = "font"
                 THEN StageSucceeds("exact", r)
                 ELSE StageFails("exact", r.msg, "unify_prepare")
    /\ UNCHANGED <<args, subset1, subset2, tmp, created, output, result, error>>
    /\ UNCHANGED <<uiVars, helper>>

\* the unitsPerEm rewrite of _merge_with_upm_unification on one loaded font
target_upm_min(upm1, upm2) == IF upm1 < upm2 THEN upm1 ELSE upm2

target_upm(upm1, upm2) == IF upm1 > upm2 THEN upm1 ELSE upm2

unify_upm(font, other_font) ==
    IF font.upm # other_font.upm /\ font.upm # target_upm(font.upm, other_font.upm)
    THEN [font EXCEPT !.upm = target_upm(font.upm, other_font.upm)]
    ELSE font

\* adjusted_font1_path, adjusted_font2_path: the names NamedTemporaryFile
\* hands out, different from the two paths the stage was given
adjusted_font_paths_in_place == <<"subset1", "subset2">>

adjusted_font_paths == <<"adjusted1", "adjusted2">>

\* _merge_with_upm_unification up to its try block: load both files, unify
\* unitsPerEm, save the two adjusted copies under new temporary names
UnifyPrepare ==
    /\ pc = "unify_prepare"
    /\ \E fault \in {"none", "load", "save1", "save2"} :
          LET font1 == unify_upm(tmp["subset1"], tmp["subset2"])
              font2 == unify_upm(tmp["subset2"], tmp["subset1"])
          IN  CASE fault = "none" ->
                     /\ tmp' = [tmp EXCEPT ![adjusted_font_paths[1]] = font1, ![adjusted_font_paths[2]] = font2]
                     /\ created' = created \cup {adjusted_font_paths[1], adjusted_font_paths[2]}
                     /\ pc' = "unify_merge"
                     /\ UNCHANGED <<stages, pending, merged, faults, steps>>
                [] fault = "load" ->
                     /\ faults' = faults \cup {"unify_load"}
                     /\ StageFails("unify", <<MsgLoad>>, "strip_prepare")
                     /\ UNCHANGED <<tmp, created>>
                [] fault = "save1" ->
                     /\ tmp' = [tmp EXCEPT ![adjusted_font_paths[1]] = Partial]
                     /\ created' = created \cup {adjusted_font_paths[1]}
                     /\ faults' = faults \cup {"unify_save1"}
                     /\ StageFails("unify", <<MsgSave>>, "strip_prepare")
                [] fault = "save2" ->
                     /\ tmp' = [tmp EXCEPT ![adjusted_font_paths[1]] = font1, ![adjusted_font_paths[2]] = Partial]
                     /\ created' = created \cup {adjusted_font_paths[1], adjusted_font_paths[2]}
                     /\ faults' = faults \cup {"unify_save2"}
                     /\ StageFails("unify", <<MsgSave>>, "strip_prepare")
    /\ UNCHANGED <<args, subset1, subset2, mergeCalls, output, result, error>>
    /\ UNCHANGED <<uiVars, helper>>

\* the try/finally of _merge_with_upm_unification: merge the adjusted copies,
\* then unlink them
UnifyMerge ==
    /\ pc = "unify_merge"
    /\ mergeCalls' = Append(mergeCalls, MergeCall("unify", tmp[adjusted_font_paths[1]], tmp[adjusted_font_paths[2]], TRUE))
    /\ tmp' = [tmp EXCEPT ![adjusted_font_paths[1]] = Absent, ![adjusted_font_paths[2]] = Absent]
    /\ \E other \in BOOLEAN :
          LET r == MergerMerge(tmp[adjusted_font_paths[1]], tmp[adjusted_font_paths[2]], other)
          IN  /\ other => (r.kind = "raise" /\ r.msg = <<MsgMergeOther>>)
              /\ faults' = IF other THEN faults \cup {"merge_unify"} ELSE faults
              /\ IF r.kind = "font"
                 THEN StageSucceeds("unify", r)
                 ELSE StageFails("unify", r.msg, "strip_prepare")
    /\ UNCHANGED <<args, subset1, subset2, created, output, result, error>>
    /\ UNCHANGED <<uiVars, helper>>

\* for table_name in ["DSIG"]: if table_name in font: del font[table_name]
strip_tables_with_layout(font) == [font EXCEPT !.dsig = FALSE, !.gsub = NoTable, !.gpos = NoTable]

strip_tables(font) == [font EXCEPT !.dsig = FALSE]

\* the last handler of _merge_with_lenient_options up to its try block: load
\* both subset files again, delete DSIG, save the two simplified copies
StripPrepare ==
    /\ pc = "strip_prepare"
    /\ \E fault \in {"none", "load", "save1", "save2"} :
          LET font1 == strip_tables(tmp["subset1"])
              font2 == strip_tables(tmp["subset2"])
          IN  CASE fault = "none" ->
                     /\ tmp' = [tmp EXCEPT !["simplified1"] = font1, !["simplified2"] = font2]
                     /\ created' = created \cup {"simplified1", "simplified2"}
                     /\ pc' = "strip_merge"
                     /\ UNCHANGED <<stages, pending, merged, faults, steps>>
                [] fault = "load" ->
                     /\ faults' = faults \cup {"strip_load"}
                     /\ StageFails("strip", <<MsgLoad>>, "none")
                     /\ UNCHANGED <<tmp, created>>
                [] fault = "save1" ->
                     /\ tmp' = [tmp EXCEPT !["simplified1"] = Partial]
                     /\ created' = created \cup {"simplified1"}
                     /\ faults' = faults \cup {"strip_save1"}
                     /\ StageFails("strip", <<MsgSave>>, "none")
                [] fault = "save2" ->
                     /\ tmp' = [tmp EXCEPT !["simplified1"] = font1, !["simplified2"] = Partial]
                     /\ created' = created \cup {"simplified1", "simplified2"}
                     /\ faults' = faults \cup {"strip_save2"}
                     /\ StageFails("strip", <<MsgSave>>, "none")
    /\ UNCHANGED <<args, subset1, subset2, mergeCalls, output, result, error>>
    /\ UNCHANGED <<uiVars, helper>>

\* the try/finally of the last handler: merge the simplified copies (this
\* Merger gets drop_tables = [] only), then unlink them
StripMerge ==
    /\ pc = "strip_merge"
    /\ mergeCalls' = Append(mergeCalls, MergeCall("strip", tmp["simplified1"], tmp["simplified2"], FALSE))
    /\ tmp' = [tmp EXCEPT !["simplified1"] = Absent, !["simplified2"] = Absent]
    /\ \E other \in BOOLEAN :
          LET r == MergerMerge(tmp["simplified1"], tmp["simplified2"], other)
          IN  /\ other => (r.kind = "raise" /\ r.msg = <<MsgMergeOther>>)
              /\ faults' = IF other THEN faults \cup {"merge_strip"} ELSE faults
              /\ IF r.kind = "font"
                 THEN StageSucceeds("strip", r)
                 ELSE StageFails("strip", r.msg, "none")
    /\ UNCHANGED <<args, subset1, subset2, created, output, result, error>>
    /\ UNCHANGED <<uiVars, helper>>

\* name_table.setName(string, nameID, platformID, platEncID, langID): the
\* record with that key gets the string, or a new record is added
setName(names, string, nameID, platform) ==
    {r \in names : ~(/\ r.nameID = nameID
                     /\ <<r.platformID, r.platEncID, r.langID>> = platform)}
    \cup {NameRecord(nameID, platform, string)}

\* font_name.replace(" ", "").replace("-", "")
RECURSIVE ps_name(_)
ps_name(chars) ==
    IF chars = <<>> THEN <<>>
    ELSE (IF Head(chars) \in {" ", "-"} THEN <<>> ELSE <<Head(chars)>>) \o ps_name(Tail(chars))

\* f"{font_name}: 2023"
unique_id(chars) == chars \o <<":", " ", "2", "0", "2", "3">>

primary_name_ids == {1, 4, 6}

\* the first loop over platforms: IDs 1, 4, 6 and 3 for one platform
set_primary_names(names, chars, platform) ==
    setName(setName(setName(setName(names, chars, 1, platform),
                            chars, 4, platform),
                    ps_name(chars), 6, platform),
            unique_id(chars), 3, platform)

\* the second loop over platforms: IDs 16 and 17 for one platform
set_typographic_names(names, chars, platform) ==
    setName(setName(names, chars, 16, platform), <<"R", "e", "g", "u", "l", "a", "r">>, 17, platform)

\* the name table after _update_font_name
update_names(names, chars) ==
    LET removed == {r \in names : r.nameID \notin primary_name_ids}
        primary == set_primary_names(set_primary_names(removed, chars, platforms[1]),
                                     chars, platforms[2])
        cleared == {r \in primary : r.nameID \notin {16, 17}}
    IN  set_typographic_names(set_typographic_names(cleared, chars, platforms[1]),
                              chars, platforms[2])

korean_ranges == {28, 29, 30}
korean_code_page == {19}

\* the OS/2 part of _update_font_metadata_for_korean
update_os2_assign(os2) ==
    [os2 EXCEPT !.ulUnicodeRange1 = korean_ranges,
                !.ulCodePageRange1 = korean_code_page]

update_os2(os2) ==
    [os2 EXCEPT !.ulUnicodeRange1 = BitOr(os2.ulUnicodeRange1, korean_ranges),
                !.ulCodePageRange1 = IF os2.version >= 1
                                     THEN BitOr(os2.ulCodePageRange1, korean_code_page)
                                     ELSE os2.ulCodePageRange1,
                !.usWeightClass = IF os2.usWeightClass = 0 THEN 400 ELSE os2.usWeightClass,
                !.usWidthClass = IF os2.usWidthClass = 0 THEN 5 ELSE os2.usWidthClass]

\* _update_font_metadata_for_korean: OS/2 is patched when there is one,
\* head.macStyle is set to 0; the cmap and the layout tables are only read
update_font_metadata_for_korean(font) ==
    [font EXCEPT !.os2 = IF font.os2 = NoTable THEN NoTable ELSE update_os2(font.os2),
                 !.macStyle = {}]

\* _update_font_name: nothing happens to a font without a name table
update_font_name(font, font_name) ==
    IF font.names = NoTable THEN font
    ELSE update_font_metadata_for_korean(
             [font EXCEPT !.names = NameTable(update_names(font.names.names, font_name.chars))])

\* if font_name: None and the empty string do not count
name_given_not_none(font_name) == font_name # NoName

name_given(font_name) == font_name # NoName /\ font_name.chars # <<>>

\* if font_name: self._update_font_name(merged_font, font_name)
\* an exception of _update_font_name or of _update_font_metadata_for_korean
\* is not caught before the finally block of merge_fonts
UpdateFontName ==
    /\ pc = "name"
    /\ IF ~name_given(args.font_name)
       THEN /\ pc' = "restore"
            /\ UNCHANGED <<merged, pending, faults, steps>>
       ELSE /\ steps' = Append(steps, "finalize")
            /\ \E ok \in BOOLEAN :
                  IF ok
                  THEN /\ merged' = update_font_name(merged, args.font_name)
                       /\ pc' = "restore"
                       /\ UNCHANGED <<pending, faults>>
                  ELSE /\ faults' = faults \cup {"name"}
                       /\ pending' = Exc(<<MsgName>>)
                       /\ pc' = "finally"
                       /\ UNCHANGED merged
    /\ UNCHANGED <<args, subset1, subset2, tmp, created, stages, mergeCalls, output, result, error>>
    /\ UNCHANGED <<uiVars, helper>>

\* self._restore_ligature_support(merged_font, temp1_path, temp2_path)
\* loading the two files is outside every try block; an exception inside
\* _preserve_ligature_features is caught there and leaves what was done
RestoreLigatureSupport ==
    /\ pc = "restore"
    /\ steps' = Append(steps, "restore")
    /\ \E fault \in {"none", "load", "gsub", "gpos"} :
          LET base_font == tmp["subset1"]
              secondary_font == tmp["subset2"]
              source == ligature_source(base_font, secondary_font)
          IN  CASE fault = "none" ->
                     /\ merged' = restore_ligature_support(merged, base_font, secondary_font)
                     /\ pc' = "save"
                     /\ UNCHANGED <<pending, faults>>
                [] fault = "load" ->
                     /\ faults' = faults \cup {"restore_load"}
                     /\ pending' = Exc(<<MsgLoad>>)
                     /\ pc' = "finally"
                     /\ UNCHANGED merged
                [] fault = "gsub" ->
                     /\ source # None
                     /\ faults' = faults \cup {"restore_gsub"}
                     /\ pc' = "save"
                     /\ UNCHANGED <<merged, pending>>
                [] fault = "gpos" ->
                     /\ source # None
                     /\ faults' = faults \cup {"restore_gpos"}
                     /\ merged' = preserve_gsub(merged, source)
                     /\ pc' = "save"
                     /\ UNCHANGED pending
    /\ UNCHANGED <<args, subset1, subset2, tmp, created, stages, mergeCalls, output, result, error>>
    /\ UNCHANGED <<uiVars, helper>>

\* merged_font.save(output_path): a failure may leave a partly written file
SaveOutput ==
    /\ pc = "save"
    /\ \E ok \in BOOLEAN :
          IF ok
          THEN /\ output' = merged
               /\ UNCHANGED <<pending, faults>>
          ELSE /\ output' \in {output, Partial}
               /\ pending' = Exc(<<MsgSave>>)
               /\ faults' = faults \cup {"save_output"}
    /\ pc' = "finally"
    /\ steps' = Append(steps, "save")
    /\ UNCHANGED <<args, subset1, subset2, tmp, created, stages, mergeCalls, merged, result, error>>
    /\ UNCHANGED <<uiVars, helper>>

\* finally: os.unlink(temp1_path); os.unlink(temp2_path)
\* then return True, or the pending exception reaches the outer handler
Finally ==
    /\ pc = "finally"
    /\ tmp' = [tmp EXCEPT !["subset1"] = Absent, !["subset2"] = Absent]
    /\ pc' = "done"
    /\ IF pending = None
       THEN /\ result' = "True"
            /\ UNCHANGED error
       ELSE /\ result' = "raised"
            /\ error' = Wrap(MsgMergeFonts, pending.msg)
    /\ UNCHANGED <<args, subset1, subset2, created, stages, mergeCalls, merged, pending, output, faults, steps>>
    /\ UNCHANGED <<uiVars, helper>>

\* ------------------------------------------------------------ the selectors
Sides == {"left", "right"}
Other(side) == IF side = "left" THEN "right" ELSE "left"

\* the code points a font of the front end can map
CodePoints == {65, 64256}

\* _get_charset_ranges: two of its ranges, the only one that gets lig_<i>
\* tokens (its name is the literal the code compares with) and an ordinary one
CharsetRanges ==
    << [name |-> RangeUpper, start |-> 65, end |-> 90],
       [name |-> RangeLigature, start |-> 64256, end |-> 64335] >>

\* a font file picked in the file dialog: it exists, it may fail to load; when
\* it loads it has a cmap, and _find_ligature_glyphs finds ligature_glyphs entries
Unloadable ==
    [kind |-> "font", exists |-> TRUE, loadable |-> FALSE, upm |-> 1000, cmap |-> {},
     ligature_glyphs |-> 0]

UiFonts ==
    {Unloadable} \cup
    [kind : {"font"}, exists : {TRUE}, loadable : {TRUE}, upm : {1000}, cmap : SUBSET CodePoints,
     ligature_glyphs : 0..MaxLigGlyphs]

\* [chr(code) for code in range(start, end + 1) if code in cmap]: the code
\* points of the range that the cmap has, in ascending order
RECURSIVE CharsInRange(_, _, _)
CharsInRange(start, end, cmap) ==
    LET inRange == {code \in cmap : start <= code /\ code <= end}
    IN  IF inRange = {} THEN <<>>
        ELSE LET least == CHOOSE code \in inRange : \A c \in inRange : code <= c
             IN  <<Chr(least)>> \o CharsInRange(least + 1, end, cmap)

\* [f"lig_{i}" for i in range(n)]
LigTokens(n) == [i \in 1..n |-> LigToken(i - 1)]

\* available_chars of one range in load_charset_options
available_chars(range, font) ==
    IF range.name = RangeLigature
    THEN CharsInRange(range.start, range.end, font.cmap) \o LigTokens(font.ligature_glyphs)
    ELSE CharsInRange(range.start, range.end, font.cmap)

\* load_charset_options: the check boxes afterwards; a box is enabled and
\* checked exactly when its range has entries; a font that does not load
\* leaves no box
load_charset_options(font) ==
    IF ~font.loadable THEN <<>>
    ELSE [i \in 1..Len(CharsetRanges) |->
             [name |-> CharsetRanges[i].name,
              chars |-> available_chars(CharsetRanges[i], font),
              checked |-> Len(available_chars(CharsetRanges[i], font)) > 0]]

\* get_selected_charsets: the checked ranges with their entries
RECURSIVE get_selected_charsets(_)
get_selected_charsets(boxes) ==
    IF boxes = <<>> THEN <<>>
    ELSE (IF Head(boxes).checked THEN << <<Head(boxes).name, Head(boxes).chars>> >> ELSE <<>>)
         \o get_selected_charsets(Tail(boxes))

has_font_selected(s) == s.font # None

\* validate_fonts: os.path.exists for both paths, then each font is loaded in
\* turn; an exception of TTFont is caught and reported
validate_fonts_first_only(font1, font2) ==
    IF ~font1.exists THEN [ok |-> FALSE, msg |-> "font 1 not found"]
    ELSE IF ~font1.loadable THEN [ok |-> FALSE, msg |-> "font 1 is not valid"]
    ELSE [ok |-> TRUE, msg |-> ""]

validate_fonts(font1, font2) ==
    IF ~font1.exists THEN [ok |-> FALSE, msg |-> "font 1 not found"]
    ELSE IF ~font2.exists THEN [ok |-> FALSE, msg |-> "font 2 not found"]
    ELSE IF ~font1.loadable THEN [ok |-> FALSE, msg |-> "font 1 is not valid"]
    ELSE IF ~font2.loadable THEN [ok |-> FALSE, msg |-> "font 2 is not valid"]
    ELSE [ok |-> TRUE, msg |-> ""]

UiInit ==
    /\ sel = [side \in Sides |-> [font |-> None, boxes |-> <<>>, base |-> FALSE]]
    /\ buttonsEnabled = TRUE
    /\ progressShown = FALSE
    /\ worker = "none"
    /\ request = None
    /\ signals = <<>>
    /\ dialog = "none"
    /\ saveFile = Absent

Init == CoreInit /\ UiInit /\ helper = None

\* the main window takes input only while the modal progress dialog is away;
\* a finished signal already posted to the event loop is delivered before any
\* later input
WindowActive == ~progressShown /\ signals = <<>>

\* select_font with a file chosen in the dialog: load the charset boxes, then
\* the base-font rule; setChecked(True) runs _on_base_font_changed, which
\* unchecks the other side when both sides have a font
SelectFont(side) ==
    /\ WindowActive
    /\ \E font \in UiFonts :
          LET other == sel[Other(side)]
              mine == [sel[side] EXCEPT !.font = font, !.boxes = load_charset_options(font)]
              check == \/ ~has_font_selected(other)
                       \/ (~mine.base /\ ~other.base)
              changed == check /\ ~mine.base
          IN  /\ sel' = [sel EXCEPT
                            ![side] = [mine EXCEPT !.base = IF check THEN TRUE ELSE mine.base],
                            ![Other(side)] = IF changed /\ has_font_selected(other)
                                             THEN [other EXCEPT !.base = FALSE]
                                             ELSE other]
              /\ dialog' = IF font.loadable THEN "none" ELSE "warning: cannot read font"
    /\ UNCHANGED <<buttonsEnabled, progressShown, worker, request, signals, saveFile>>
    /\ UNCHANGED <<coreVars, helper>>

\* the file behind a selected font is deleted or moved away; the selector
\* keeps its path.  While the progress dialog is up nothing reads the file.
FileRemoved(side) ==
    /\ WindowActive
    /\ has_font_selected(sel[side])
    /\ sel[side].font.exists
    /\ sel' = [sel EXCEPT ![side].font.exists = FALSE]
    /\ dialog' = "none"
    /\ UNCHANGED <<buttonsEnabled, progressShown, worker, request, signals, saveFile>>
    /\ UNCHANGED <<coreVars, helper>>

\* the user clicks an enabled charset check box
ToggleCharset(side) ==
    /\ WindowActive
    /\ \E i \in 1..Len(sel[side].boxes) :
          /\ Len(sel[side].boxes[i].chars) > 0
          /\ sel' = [sel EXCEPT ![side].boxes[i].checked = ~sel[side].boxes[i].checked]
    /\ dialog' = "none"
    /\ UNCHANGED <<buttonsEnabled, progressShown, worker, request, signals, saveFile>>
    /\ UNCHANGED <<coreVars, helper>>

\* _select_all_charsets / _deselect_all_charsets: every enabled box
SetAllCharsets(side) ==
    /\ WindowActive
    /\ sel[side].boxes # <<>>
    /\ \E value \in BOOLEAN :
          sel' = [sel EXCEPT ![side].boxes =
                     [i \in 1..Len(sel[side].boxes) |->
                         IF Len(sel[side].boxes[i].chars) > 0
                         THEN [sel[side].boxes[i] EXCEPT !.checked = value]
                         ELSE sel[side].boxes[i]]]
    /\ dialog' = "none"
    /\ UNCHANGED <<buttonsEnabled, progressShown, worker, request, signals, saveFile>>
    /\ UNCHANGED <<coreVars, helper>>

\* the user clicks the base-font check box: _on_base_font_changed
ToggleBase(side) ==
    /\ WindowActive
    /\ LET state == ~sel[side].base
           both == has_font_selected(sel[side]) /\ has_font_selected(sel[Other(side)])
       IN  sel' = IF ~both THEN [sel EXCEPT ![side].base = state]
                  ELSE IF state THEN [sel EXCEPT ![side].base = TRUE, ![Other(side)].base = FALSE]
                  ELSE [sel EXCEPT ![side].base = TRUE]
    /\ dialog' = "none"
    /\ UNCHANGED <<buttonsEnabled, progressShown, worker, request, signals, saveFile>>
    /\ UNCHANGED <<coreVars, helper>>

\* ------------------------------------------------------- the merge buttons
OutputFormats == {"ttf", "woff2"}

\* font_name as the window passes it: the stripped text of the name field, or
\* None when the field is empty or the default-name option is chosen
UiFontNames == {n \in FontNames : n = NoName \/ name_given(n)}

\* _merge_fonts_with_format up to the file dialog: the two caller-level checks
MergeRejected ==
    /\ WindowActive
    /\ buttonsEnabled
    /\ LET left_charsets == get_selected_charsets(sel["left"].boxes)
           right_charsets == get_selected_charsets(sel["right"].boxes)
       IN  \/ /\ ~has_font_selected(sel["left"]) \/ ~has_font_selected(sel["right"])
              /\ dialog' = "warning: select both fonts"
           \/ /\ has_font_selected(sel["left"]) /\ has_font_selected(sel["right"])
              /\ left_charsets = <<>> /\ right_charsets = <<>>
              /\ dialog' = "warning: select at least one charset"
    /\ UNCHANGED <<sel, buttonsEnabled, progressShown, worker, request, signals, saveFile>>
    /\ UNCHANGED <<coreVars, helper>>

\* the checks pass and a save path is chosen, but validate_fonts fails
MergeInvalid ==
    /\ WindowActive
    /\ buttonsEnabled
    /\ has_font_selected(sel["left"]) /\ has_font_selected(sel["right"])
    /\ ~(get_selected_charsets(sel["left"].boxes) = <<>> /\ get_selected_charsets(sel["right"].boxes) = <<>>)
    /\ ~validate_fonts(sel["left"].font, sel["right"].font).ok
    /\ dialog' = validate_fonts(sel["left"].font, sel["right"].font).msg
    /\ UNCHANGED <<sel, buttonsEnabled, progressShown, worker, request, signals, saveFile>>
    /\ UNCHANGED <<coreVars, helper>>

\* merge_ttf_button.setEnabled(False); merge_woff2_button.setEnabled(False)
\* before self.worker.start()
buttons_while_merging_enabled == TRUE

buttons_while_merging == FALSE

\* the checks pass, a save path is chosen and the fonts are valid: the worker
\* is created with the base font first and started, the buttons are disabled
MergeStart ==
    /\ WindowActive
    /\ buttonsEnabled
    /\ has_font_selected(sel["left"]) /\ has_font_selected(sel["right"])
    /\ ~(get_selected_charsets(sel["left"].boxes) = <<>> /\ get_selected_charsets(sel["right"].boxes) = <<>>)
    /\ validate_fonts(sel["left"].font, sel["right"].font).ok
    /\ \E output_format \in OutputFormats, merge_option \in MergeOptions, font_name \in UiFontNames :
          LET base == IF sel["left"].base THEN "left" ELSE "right"
          IN  request' = [kind |-> "request",
                          base_font |-> sel[base].font,
                          base_charsets |-> get_selected_charsets(sel[base].boxes),
                          secondary_font |-> sel[Other(base)].font,
                          secondary_charsets |-> get_selected_charsets(sel[Other(base)].boxes),
                          merge_option |-> merge_option,
                          font_name |-> font_name,
                          output_format |-> output_format]
    /\ buttonsEnabled' = buttons_while_merging
    /\ worker' = "running"
    /\ progressShown' = TRUE
    /\ dialog' = "none"
    /\ UNCHANGED <<sel, signals, saveFile>>
    /\ UNCHANGED <<coreVars, helper>>

\* the attributes of class FontMerger that FontMergeWorker.run can call
FontMergerMethods ==
    {"determine_optimal_font_order", "merge_fonts", "validate_fonts"}

\* FontMergeWorker.run: self.merger.merge_fonts_with_format(...) is looked up
\* on the FontMerger object; a missing attribute raises AttributeError, which
\* the handler of run turns into finished(False, message)
WorkerRun ==
    /\ worker = "running"
    /\ "merge_fonts_with_format" \notin FontMergerMethods
    /\ signals' = Append(signals, [success |-> FALSE, message |-> "AttributeError"])
    /\ worker' = "finished"
    /\ UNCHANGED <<sel, buttonsEnabled, progressShown, request, dialog, saveFile>>
    /\ UNCHANGED <<coreVars, helper>>

\* on_merge_finished: close the progress dialog, enable the buttons, report
OnMergeFinished ==
    /\ signals # <<>>
    /\ signals' = Tail(signals)
    /\ progressShown' = FALSE
    /\ buttonsEnabled' = TRUE
    /\ dialog' = IF Head(signals).success THEN "information: done" ELSE "critical: merge failed"
    /\ worker' = "none"
    /\ request' = None
    /\ UNCHANGED <<sel, saveFile>>
    /\ UNCHANGED <<coreVars, helper>>

\* cancel_merge, from the cancel button of the progress dialog
CancelMerge ==
    /\ progressShown
    /\ worker' = IF worker = "running" THEN "terminated" ELSE worker
    /\ request' = None
    /\ buttonsEnabled' = TRUE
    /\ progressShown' = FALSE
    /\ UNCHANGED <<sel, signals, dialog, saveFile>>
    /\ UNCHANGED <<coreVars, helper>>

NextUI ==
    \/ \E side \in Sides : SelectFont(side)
    \/ \E side \in Sides : FileRemoved(side)
    \/ \E side \in Sides : ToggleCharset(side)
    \/ \E side \in Sides : SetAllCharsets(side)
    \/ \E side \in Sides : ToggleBase(side)
    \/ MergeRejected
    \/ MergeInvalid
    \/ MergeStart
    \/ WorkerRun
    \/ OnMergeFinished
    \/ CancelMerge

SpecUI == Init /\ [][NextUI]_vars

Next ==
    \/ Call
    \/ Subset1
    \/ Subset2
    \/ SaveSubset1
    \/ SaveSubset2
    \/ ExactStage
    \/ UnifyPrepare
    \/ UnifyMerge
    \/ StripPrepare
    \/ StripMerge
    \/ UpdateFontName
    \/ RestoreLigatureSupport
    \/ SaveOutput
    \/ Finally

Spec == Init /\ [][Next]_vars

NextCmap ==
    \/ CallCmap
    \/ Subset1
    \/ Subset2
    \/ SaveSubset1
    \/ SaveSubset2
    \/ ExactStage
    \/ UnifyPrepare
    \/ UnifyMerge
    \/ StripPrepare
    \/ StripMerge
    \/ UpdateFontName
    \/ RestoreLigatureSupport
    \/ SaveOutput
    \/ Finally

SpecCmap == Init /\ [][NextCmap]_vars

\* ------------------------------------------------- helper methods on their own
\* the name tables a font handed to _update_font_name may carry
NameCandidates ==
    {NameRecord(nameID, platform, OldName) :
        nameID \in {1, 2, 3, 16}, platform \in {platforms[1], OtherPlatform}}

NameValues == {NoTable} \cup {NameTable(records) : records \in SUBSET NameCandidates}

\* the OS/2 tables a font handed to _update_font_metadata_for_korean may carry
OS2Values ==
    {NoTable} \cup
    {OS2Table(version, range1, {25}, codePage1, weight, 5) :
        version \in {0, 4}, range1 \in SUBSET {0, 28, 31},
        codePage1 \in SUBSET {0, 19}, weight \in {0, 700}}

HelperFont(names, os2, macStyle) ==
    [kind |-> "font", upm |-> 1000, gsub |-> NoTable, gpos |-> NoTable, dsig |-> FALSE,
     names |-> names, os2 |-> os2, macStyle |-> macStyle, cmap |-> SourceCmap]

\* the layout tables of the fonts handed to the restoration helpers
RestoreGsubValues ==
    {NoTable, NoFeatureList, FeatureList(<<>>), FeatureList(<<"kern">>),
     FeatureList(<<"liga">>), FeatureList(<<"calt", "liga">>)}

LayoutFont(gsub, gpos) ==
    [kind |-> "font", upm |-> 1000, gsub |-> gsub, gpos |-> gpos, dsig |-> FALSE,
     names |-> NoTable, os2 |-> NoTable, macStyle |-> {}, cmap |-> SourceCmap]

RestoreFonts == {LayoutFont(gsub, gpos) : gsub \in RestoreGsubValues, gpos \in GposValues}

RestoreCalls ==
    {[op |-> "restore_ligature_support", merged_font |-> merged_font,
      base_font |-> base_font, secondary_font |-> secondary_font, result |-> None] :
        merged_font \in RestoreFonts, base_font \in RestoreFonts, secondary_font \in RestoreFonts}

\* the fonts handed to the two score functions: feature lists over one tag of
\* every weight and two tags without weight, glyph sets around the thresholds
\* of the bonus
ScorerTags == {"liga", "dlig", "clig", "rlig", "calt", "kern", "curs", "ss01", "ss10", "hlig", "ss11"}

RECURSIVE FeatureListsOver(_, _)
FeatureListsOver(tags, n) ==
    IF n = 0 THEN {<<>>}
    ELSE LET shorter == FeatureListsOver(tags, n - 1)
         IN  shorter \cup {Append(l, t) : l \in {x \in shorter : Len(x) = n - 1}, t \in tags}

ScorerFont(gsub, gpos, ligature_names, glyph_set_readable) ==
    [kind |-> "font", upm |-> 1000, gsub |-> gsub, gpos |-> gpos, dsig |-> FALSE,
     names |-> NoTable, os2 |-> NoTable, macStyle |-> {}, cmap |-> SourceCmap,
     ligature_names |-> ligature_names, glyph_set_readable |-> glyph_set_readable]

ScorerFonts ==
    {ScorerFont(gsub, gpos, ligature_names, glyph_set_readable) :
        gsub \in {NoTable, NoFeatureList}
                 \cup {FeatureList(l) : l \in FeatureListsOver(ScorerTags, MaxFeatures + 1)},
        gpos \in GposValues,
        ligature_names \in {0, 10, 11, 20, 21, 50, 51},
        glyph_set_readable \in BOOLEAN}

OrderFonts ==
    {ScorerFont(gsub, NoTable, ligature_names, TRUE) :
        gsub \in RestoreGsubValues, ligature_names \in {0, 11}}

ScorerCalls ==
    {[op |-> op, font |-> font, result |-> None] :
        op \in {"calculate_ligature_score", "calculate_ligature_score_from_font"},
        font \in ScorerFonts}
    \cup
    {[op |-> "determine_optimal_font_order", font1 |-> font1, font2 |-> font2,
      fault |-> fault, result |-> None] :
        font1 \in OrderFonts, font2 \in OrderFonts, fault \in {"none", "load1", "load2"}}

\* the GSUB tables handed to _merge_ligature_features
MergeFeatureGsubValues ==
    {NoFeatureList}
    \cup {FeatureList(l) : l \in FeatureListsOver({"liga", "calt", "kern"}, MaxFeatures + 1)}

MergeFeatureCalls ==
    {[op |-> "merge_ligature_features", target_gsub |-> target_gsub,
      source_gsub |-> source_gsub, result |-> None] :
        target_gsub \in MergeFeatureGsubValues, source_gsub \in MergeFeatureGsubValues}

\* a GPOS table with a feature list of n records
GposWith(n) == [kind |-> "GPOS", FeatureCount |-> n]

\* the fonts handed to _preserve_ligature_features
PreserveFonts ==
    {LayoutFont(gsub, gpos) :
        gsub \in {NoTable, FeatureList(<<"liga">>)},
        gpos \in {NoTable} \cup {GposWith(n) : n \in 0..(MaxFeatures + 1)}}

PreserveCalls ==
    {[op |-> "preserve_ligature_features", merged_font |-> merged_font,
      source_font |-> source_font, result |-> None] :
        merged_font \in PreserveFonts, source_font \in PreserveFonts}

HelperCalls ==
    RestoreCalls \cup ScorerCalls \cup MergeFeatureCalls \cup PreserveCalls \cup
    {[op |-> "update_font_name", font |-> HelperFont(names, os2, {0}),
      font_name |-> font_name, result |-> None] :
        names \in NameValues, os2 \in {NoTable, SourceOS2},
        font_name \in {n \in FontNames : name_given(n)}}
    \cup
    {[op |-> "update_font_metadata_for_korean", font |-> HelperFont(NoTable, os2, macStyle),
      result |-> None] :
        os2 \in OS2Values, macStyle \in {{}, {0, 1}}}

HelperInit == CoreInit /\ UiInit /\ helper \in HelperCalls

\* self._update_font_name(font, font_name)
CallUpdateFontName ==
    /\ helper.op = "update_font_name"
    /\ helper.result = None
    /\ helper' = [helper EXCEPT !.result = update_font_name(helper.font, helper.font_name)]
    /\ UNCHANGED <<coreVars, uiVars>>

\* self._update_font_metadata_for_korean(font)
CallUpdateFontMetadata ==
    /\ helper.op = "update_font_metadata_for_korean"
    /\ helper.result = None
    /\ helper' = [helper EXCEPT !.result = update_font_metadata_for_korean(helper.font)]
    /\ UNCHANGED <<coreVars, uiVars>>

\* self._restore_ligature_support(merged_font, base_font_path, secondary_font_path)
\* with two files that load
CallRestoreLigatureSupport ==
    /\ helper.op = "restore_ligature_support"
    /\ helper.result = None
    /\ helper' = [helper EXCEPT !.result = restore_ligature_support(helper.merged_font,
                                               helper.base_font, helper.secondary_font)]
    /\ UNCHANGED <<coreVars, uiVars>>

\* self._calculate_ligature_score(font)
CallCalculateLigatureScore ==
    /\ helper.op = "calculate_ligature_score"
    /\ helper.result = None
    /\ helper' = [helper EXCEPT !.result = [score |-> calculate_ligature_score(helper.font)]]
    /\ UNCHANGED <<coreVars, uiVars>>

\* self._calculate_ligature_score_from_font(font)
CallCalculateLigatureScoreFromFont ==
    /\ helper.op = "calculate_ligature_score_from_font"
    /\ helper.result = None
    /\ helper' = [helper EXCEPT !.result = [score |-> calculate_ligature_score_from_font(helper.font)]]
    /\ UNCHANGED <<coreVars, uiVars>>

\* self.determine_optimal_font_order(font1_path, font2_path)
CallDetermineOptimalFontOrder ==
    /\ helper.op = "determine_optimal_font_order"
    /\ helper.result = None
    /\ helper' = [helper EXCEPT !.result =
                      determine_optimal_font_order(helper.font1, helper.font2, helper.fault)]
    /\ UNCHANGED <<coreVars, uiVars>>

\* self._merge_ligature_features(target_gsub, source_gsub)
CallMergeLigatureFeatures ==
    /\ helper.op = "merge_ligature_features"
    /\ helper.result = None
    /\ helper' = [helper EXCEPT !.result =
                      merge_ligature_features(helper.target_gsub, helper.source_gsub)]
    /\ UNCHANGED <<coreVars, uiVars>>

\* self._preserve_ligature_features(merged_font, ligature_source)
CallPreserveLigatureFeatures ==
    /\ helper.op = "preserve_ligature_features"
    /\ helper.result = None
    /\ helper' = [helper EXCEPT !.result =
                      preserve_ligature_features(helper.merged_font, helper.source_font)]
    /\ UNCHANGED <<coreVars, uiVars>>

NextHelper ==
    \/ CallMergeLigatureFeatures
    \/ CallPreserveLigatureFeatures
    \/ CallUpdateFontName
    \/ CallUpdateFontMetadata
    \/ CallRestoreLigatureSupport
    \/ CallCalculateLigatureScore
    \/ CallCalculateLigatureScoreFromFont
    \/ CallDetermineOptimalFontOrder

SpecHelper == HelperInit /\ [][NextHelper]_vars

TypeOK ==
    /\ pc \in {"idle", "subset1", "subset2", "save1", "save2", "exact", "unify_prepare",
               "unify_merge", "strip_prepare", "strip_merge", "name", "restore", "save",
               "finally", "done"}
    /\ created \subseteq TempNames
    /\ result \in {"running", "True", "raised"}

\* ================================================================ claims
Called == args # NoArgs
Done == pc = "done"

RECURSIVE NoRepeatedTag(_)
NoRepeatedTag(recs) ==
    \/ recs = <<>>
    \/ /\ \A i \in 1..Len(Tail(recs)) : Tail(recs)[i] # Head(recs)
       /\ NoRepeatedTag(Tail(recs))

MaxUpm == IF args.font1.upm > args.font2.upm THEN args.font1.upm ELSE args.font2.upm

\* C1: once merge_fonts has returned or raised, none of the temporary files
\* created during the call exists any more.
C1_NoTempFileLeft ==
    Done => \A n \in created : tmp[n] = Absent

\* C2: a worker that has run either reports success with a file of the
\* requested kind at save_path, or reports an error; when both selections
\* yield a subset and the strategy can merge the two fonts, it reports success
\* and the file at save_path has the requested kind.
C2_RequestMergeable ==
    /\ Usable(request.base_charsets)
    /\ Usable(request.secondary_charsets)
    /\ \/ request.base_font.upm = request.secondary_font.upm
       \/ request.merge_option \in {1, 2}

C2_WorkerOutcome ==
    (worker = "finished" /\ request # None /\ signals # <<>>) =>
        /\ signals[1].success => saveFile = [kind |-> request.output_format]
        /\ C2_RequestMergeable =>
              (signals[1].success /\ saveFile = [kind |-> request.output_format])

\* C3: the font saved by a successful merge_fonts has no two GSUB feature
\* records with the same tag.
C3_NoDuplicateFeatureTags ==
    (Done /\ result = "True" /\ output.gsub.kind = "FeatureList") =>
        NoRepeatedTag(output.gsub.recs)

\* C4: with merge_option = 1 both fonts handed to Merger.merge have
\* unitsPerEm = max(upmA, upmB), and so has the merged font and the saved one.
C4_UnifiedUnitsPerEm ==
    (Called /\ args.merge_option = 1) =>
        /\ \A i \in 1..Len(mergeCalls) :
              /\ mergeCalls[i].font1.upm = MaxUpm
              /\ mergeCalls[i].font2.upm = MaxUpm
        /\ merged # None => merged.upm = MaxUpm
        /\ result = "True" => output.upm = MaxUpm

C4_Witness ==
    /\ Called /\ Done
    /\ args.merge_option = 1
    /\ args.font1.upm # args.font2.upm
    /\ Len(mergeCalls) = 1
    /\ result = "True"
    /\ output.upm = 2048

\* C5: when the two subset fonts differ in unitsPerEm, merge_fonts with
\* merge_option = 0 raises, writes nothing to output_path, and its message
\* holds the message of the merge primitive once that was invoked; with
\* merge_option = 1 and no failure of the environment the call returns True
\* and the output is written.
C5_ExactRaisesUnifySucceeds ==
    (Called /\ Done /\ subset2 # None /\ args.font1.upm # args.font2.upm) =>
        /\ args.merge_option = 0 =>
              /\ result = "raised"
              /\ output = Absent
              /\ mergeCalls # <<>> => Contains(error, MsgNotEqual)
        /\ (args.merge_option = 1 /\ faults = {}) =>
              /\ result = "True"
              /\ output.kind = "font"

C5_Witness ==
    /\ Called /\ Done
    /\ args.merge_option = 0
    /\ args.font1.upm # args.font2.upm
    /\ Len(mergeCalls) = 1
    /\ result = "raised"
    /\ Contains(error, MsgNotEqual)
    /\ output = Absent

\* C6: with merge_option = 2 the stages are attempted in the order exact,
\* unify, strip; a stage is attempted only after all earlier ones failed; a
\* stage that succeeds is the last one; when all three fail the exception of
\* the strip stage is the one propagated; the fonts merged in the strip stage
\* are the subset fonts without DSIG, with their GSUB and GPOS.
LenientOrder == <<"exact", "unify", "strip">>

StagePcs == {"exact", "unify_prepare", "unify_merge", "strip_prepare", "strip_merge"}

C6_LenientStages ==
    (Called /\ args.merge_option = 2) =>
        /\ Len(stages) <= 3
        /\ \A i \in 1..Len(stages) : stages[i].stage = LenientOrder[i]
        /\ \A i \in 1..Len(stages) : stages[i].ok => i = Len(stages)
        /\ pc \in StagePcs => \A i \in 1..Len(stages) : ~stages[i].ok
        /\ (stages # <<>> /\ stages[Len(stages)].ok) => pc \notin StagePcs
        /\ \A i \in 1..Len(mergeCalls) : \A j \in 1..Len(mergeCalls) :
              (i < j) =>
                 \E k \in 1..3 : \E l \in 1..3 :
                    /\ k < l
                    /\ mergeCalls[i].stage = LenientOrder[k]
                    /\ mergeCalls[j].stage = LenientOrder[l]
        /\ (Len(stages) = 3 /\ ~stages[3].ok) =>
              /\ pending = Exc(Wrap(MsgMergeFontFiles, stages[3].msg))
              /\ Done => (result = "raised"
                          /\ error = Wrap(MsgMergeFonts, Wrap(MsgMergeFontFiles, stages[3].msg)))
        /\ \A i \in 1..Len(mergeCalls) :
              mergeCalls[i].stage = "strip" =>
                 /\ mergeCalls[i].font1 = [subset1 EXCEPT !.dsig = FALSE]
                 /\ mergeCalls[i].font2 = [subset2 EXCEPT !.dsig = FALSE]
                 /\ mergeCalls[i].font1.gsub = subset1.gsub
                 /\ mergeCalls[i].font1.gpos = subset1.gpos
                 /\ mergeCalls[i].font2.gsub = subset2.gsub
                 /\ mergeCalls[i].font2.gpos = subset2.gpos

C6_Witness ==
    /\ Called /\ Done
    /\ args.merge_option = 2
    /\ args.font1.dsig
    /\ args.font1.gsub.kind = "FeatureList"
    /\ Len(stages) = 3
    /\ ~stages[3].ok
    /\ Len(mergeCalls) = 3
    /\ result = "raised"

\* C7: with merge_option 0 or 1 Merger.merge is invoked at most once in a
\* call, and exactly once when the stage got its input files ready; only the
\* stage of the chosen option is attempted; when it fails its exception is
\* raised to the caller.
C7_NoEscalation ==
    (Called /\ args.merge_option \in {0, 1}) =>
        LET own == IF args.merge_option = 0 THEN "exact" ELSE "unify"
        IN  /\ Len(mergeCalls) <= 1
            /\ Len(stages) <= 1
            /\ \A i \in 1..Len(stages) : stages[i].stage = own
            /\ \A i \in 1..Len(mergeCalls) : mergeCalls[i].stage = own
            /\ (stages # <<>> /\ faults \cap {"unify_load", "unify_save1", "unify_save2"} = {})
                  => Len(mergeCalls) = 1
            /\ (stages # <<>> /\ ~stages[1].ok) =>
                  /\ pc \in {"finally", "done"}
                  /\ pending = Exc(Wrap(MsgMergeFontFiles, stages[1].msg))
                  /\ Done => (result = "raised"
                              /\ error = Wrap(MsgMergeFonts, Wrap(MsgMergeFontFiles, stages[1].msg)))

C7_Witness ==
    /\ Called /\ Done
    /\ args.merge_option = 1
    /\ Len(stages) = 1
    /\ ~stages[1].ok
    /\ Len(mergeCalls) = 1
    /\ result = "raised"

\* C8: when exactly one of the two selections yields no usable code point,
\* merge_fonts does not fail on account of it: the call is not ended by the
\* "cannot extract charset" error, and without any other failure it returns
\* True.
C8_OneEmptySelection ==
    (Called /\ Done /\ (Usable(args.font1_charsets) # Usable(args.font2_charsets))) =>
        /\ ~Contains(error, MsgNoCharset1)
        /\ ~Contains(error, MsgNoCharset2)
        /\ (faults = {} /\ (args.font1.upm = args.font2.upm \/ args.merge_option # 0))
              => result = "True"

\* C9: a request in which neither selection yields a usable single character
\* never gets a worker, and no temporary file is created for it.
C9_BothEmptyRejected ==
    /\ request # None =>
          (Usable(request.base_charsets) \/ Usable(request.secondary_charsets))
    /\ created = {}

\* C10: a failure inside the naming step or inside ligature restoration does
\* not make merge_fonts fail: the merged font is saved and True is returned.
C10_NamingAndRestorationNonFatal ==
    (Called /\ Done
        /\ faults # {}
        /\ faults \subseteq {"name", "restore_load", "restore_gsub", "restore_gpos"}) =>
        /\ result = "True"
        /\ output.kind = "font"

\* C11: the pipeline steps of a merge_fonts run happen in the order subset,
\* subset, merge, ligature restoration, metadata finalizer, save; in
\* particular restoration never runs after the metadata finalizer.
StepRank(step) ==
    CASE step = "subset1" -> 1
      [] step = "subset2" -> 2
      [] step = "merge" -> 3
      [] step = "restore" -> 4
      [] step = "finalize" -> 5
      [] step = "save" -> 6

C11_PipelineOrder ==
    \A i \in 1..Len(steps) : \A j \in 1..Len(steps) :
        i < j => StepRank(steps[i]) < StepRank(steps[j])

\* C12: when no font name is given (None or the empty string), the name table
\* of the merged font stays as the merge produced it until it is saved: no
\* step changes it and the saved font carries it.
C12_NameTableKept ==
    [][(Called /\ args.font_name \in {NoName, Str(<<>>)}) =>
          /\ (merged # None /\ merged' # None) => merged'.names = merged.names
          /\ (merged # None /\ output' # output /\ output'.kind = "font")
                => output'.names = merged.names]_vars

C12_Witness ==
    /\ Called /\ Done
    /\ args.font_name = Str(<<>>)
    /\ result = "True"
    /\ output.names = NameTable(SourceNames)

\* C13: after _update_font_name(font, N) on a font with a name table, each of
\* the IDs 1, 3, 4, 6, 16, 17 has exactly the two records for the Windows and
\* the Macintosh triple, holding N (1, 4, 16), N without spaces and hyphens
\* (6), N followed by ": " and a year (3), and "Regular" (17).
ExpectedString(nameID, chars) ==
    CASE nameID \in {1, 4, 16} -> chars
      [] nameID = 6 -> SelectSeq(chars, LAMBDA c : c \notin {" ", "-"})
      [] nameID = 3 -> chars \o <<":", " ", "2", "0", "2", "3">>
      [] nameID = 17 -> <<"R", "e", "g", "u", "l", "a", "r">>

UpdateFontNameReturned ==
    /\ helper # None
    /\ helper.op = "update_font_name"
    /\ helper.result # None
    /\ helper.font.names # NoTable

C13_NameRewrite ==
    UpdateFontNameReturned =>
        \A nameID \in {1, 3, 4, 6, 16, 17} :
            {r \in helper.result.names.names : r.nameID = nameID}
            = {NameRecord(nameID, platforms[i], ExpectedString(nameID, helper.font_name.chars)) :
                  i \in 1..2}

\* C14: _update_font_metadata_for_korean on a font with an OS/2 table keeps
\* every bit of ulUnicodeRange1 and ulCodePageRange1 that was set, adds at
\* most the bits 28, 29, 30 and the bit 19, and leaves ulUnicodeRange2..4.
UpdateFontMetadataReturned ==
    /\ helper # None
    /\ helper.op = "update_font_metadata_for_korean"
    /\ helper.result # None
    /\ helper.font.os2 # NoTable

C14_BitsPreserved ==
    UpdateFontMetadataReturned =>
        LET before == helper.font.os2
            after == helper.result.os2
        IN  /\ after # NoTable
            /\ before.ulUnicodeRange1 \subseteq after.ulUnicodeRange1
            /\ after.ulUnicodeRange1 \subseteq before.ulUnicodeRange1 \cup {28, 29, 30}
            /\ before.ulCodePageRange1 \subseteq after.ulCodePageRange1
            /\ after.ulCodePageRange1 \subseteq before.ulCodePageRange1 \cup {19}
            /\ after.ulUnicodeRange2 = before.ulUnicodeRange2
            /\ after.ulUnicodeRange3 = before.ulUnicodeRange3
            /\ after.ulUnicodeRange4 = before.ulUnicodeRange4

C14_Witness ==
    /\ UpdateFontMetadataReturned
    /\ helper.font.os2.ulUnicodeRange1 = {0, 31}
    /\ helper.font.os2.ulCodePageRange1 = {0}
    /\ helper.font.os2.version = 4
    /\ helper.result.os2.ulUnicodeRange1 = {0, 28, 29, 30, 31}
    /\ helper.result.os2.ulCodePageRange1 = {0, 19}

\* C15: after a successful merge the code points the cmap of the output maps
\* are those of the single characters selected from font 1 together with
\* those selected from font 2, no more and no less.
SelectedCodes(dict) ==
    {Unicodes(AllChars(dict))[i] : i \in 1..Len(Unicodes(AllChars(dict)))}

SelectedFromFonts ==
    /\ SelectedCodes(args.font1_charsets) \subseteq args.font1.cmap
    /\ SelectedCodes(args.font2_charsets) \subseteq args.font2.cmap

C15_OutputCmap ==
    (Called /\ Done /\ result = "True" /\ SelectedFromFonts) =>
        output.cmap = SelectedCodes(args.font1_charsets) \cup SelectedCodes(args.font2_charsets)

C15_Witness ==
    /\ Called /\ Done /\ result = "True"
    /\ args.font1.cmap = {65, 66, 67}
    /\ args.font2.cmap = {66, 44032}
    /\ SelectedCodes(args.font1_charsets) = {65, 66}
    /\ SelectedCodes(args.font2_charsets) = {66, 44032}
    /\ output.cmap = {65, 66, 44032}

\* C18: every invocation of Merger.merge, in every stage, is made with a
\* merger that permits duplicate glyph names and has an empty drop_tables.
C18_MergerConfigured ==
    \A i \in 1..Len(mergeCalls) :
        /\ mergeCalls[i].duplicateGlyphsPerFont
        /\ mergeCalls[i].drop_tables = {}

\* C19: the subset _create_font_subset returns has the GSUB feature tags and
\* the GPOS table of its source font, whatever was selected.
TagsOf(gsub) ==
    IF gsub.kind = "FeatureList" THEN {gsub.recs[i] : i \in 1..Len(gsub.recs)} ELSE {}

C19_SubsetKeepsFeatures ==
    /\ (Called /\ subset1 # None) =>
          /\ TagsOf(subset1.gsub) = TagsOf(args.font1.gsub)
          /\ subset1.gpos = args.font1.gpos
    /\ (Called /\ subset2 # None) =>
          /\ TagsOf(subset2.gsub) = TagsOf(args.font2.gsub)
          /\ subset2.gpos = args.font2.gpos

\* C20: in a run in which a ligature source is chosen, the feature records of
\* the merged font have been deduplicated by tag when the font is about to be
\* saved, also when restoration copied or appended nothing.
C20_DeduplicatedBeforeSave ==
    (Called /\ pc = "save"
        /\ ligature_source(tmp["subset1"], tmp["subset2"]) # None
        /\ merged.gsub.kind = "FeatureList") =>
        NoRepeatedTag(merged.gsub.recs)

\* C16: validate_fonts returns (it does not raise) ok = True exactly when both
\* files exist and load, and otherwise ok = False with a message that names
\* the font whose check failed first; the window starts a worker only for
\* two fonts that validate_fonts accepted.
ValidFile(font) == font.exists /\ font.loadable

C16_ValidateFonts ==
    /\ (has_font_selected(sel["left"]) /\ has_font_selected(sel["right"])) =>
          LET font1 == sel["left"].font
              font2 == sel["right"].font
              v == validate_fonts(font1, font2)
          IN  /\ v.ok <=> (ValidFile(font1) /\ ValidFile(font2))
              /\ v.ok => v.msg = ""
              /\ ~v.ok => v.msg \in {"font 1 not found", "font 2 not found",
                                     "font 1 is not valid", "font 2 is not valid"}
              /\ v.msg = "font 1 not found" => ~font1.exists
              /\ v.msg = "font 2 not found" => (font1.exists /\ ~font2.exists)
              /\ v.msg = "font 1 is not valid" => (font1.exists /\ ~font1.loadable)
              /\ v.msg = "font 2 is not valid" => (ValidFile(font1) /\ ~font2.loadable)
    /\ request # None => (ValidFile(request.base_font) /\ ValidFile(request.secondary_font))
    /\ worker = "running" => request # None

C16_Witness ==
    /\ dialog = "font 2 not found"
    /\ has_font_selected(sel["left"]) /\ ValidFile(sel["left"].font)
    /\ ~sel["right"].font.exists
    /\ worker = "none"
    /\ request = None

\* C17: a merge that is cancelled while its worker runs is not cut short: the
\* worker is left to finish or fail by itself, so that its cleanup runs.
C17_CancelLetsWorkerFinish ==
    worker # "terminated"

\* C21: _restore_ligature_support takes the base font as its source when the
\* base font's score is above zero, else the secondary font when that one's
\* score is above zero, else no source; without a source the merged font is
\* returned as it was, with a source it is what _preserve_ligature_features
\* makes of the merged font and that source.
RestoreReturned ==
    /\ helper # None
    /\ helper.op = "restore_ligature_support"
    /\ helper.result # None

C21_RestorationSource ==
    RestoreReturned =>
        LET base_score == calculate_ligature_score_from_font(helper.base_font)
            secondary_score == calculate_ligature_score_from_font(helper.secondary_font)
        IN  /\ base_score > 0 =>
                  helper.result = preserve_ligature_features(helper.merged_font, helper.base_font)
            /\ (base_score = 0 /\ secondary_score > 0) =>
                  helper.result = preserve_ligature_features(helper.merged_font, helper.secondary_font)
            /\ (base_score = 0 /\ secondary_score = 0) =>
                  helper.result = helper.merged_font

\* the base font scores less than the secondary font and is the source all
\* the same, and the two sources would give different fonts
C21_Witness ==
    /\ RestoreReturned
    /\ calculate_ligature_score_from_font(helper.base_font) > 0
    /\ calculate_ligature_score_from_font(helper.secondary_font)
          > calculate_ligature_score_from_font(helper.base_font)
    /\ helper.result # preserve_ligature_features(helper.merged_font, helper.secondary_font)
    /\ helper.result # helper.merged_font

\* C22: the score of the restoration step is zero exactly when the score of
\* the Ligature Scorer is zero, for every font.
C22_SameZeroAsScorer ==
    (/\ helper # None
     /\ helper.op = "calculate_ligature_score_from_font"
     /\ helper.result # None)
        => ((helper.result.score = 0) <=> (calculate_ligature_score(helper.font) = 0))

\* the weights and the bonus as the specification of the scorer lists them
RECURSIVE ListedWeights(_)
ListedWeights(recs) ==
    IF recs = <<>> THEN 0
    ELSE (IF Head(recs) = "liga" THEN 100 ELSE 0)
         + (IF Head(recs) \in {"dlig", "clig"} THEN 50 ELSE 0)
         + (IF Head(recs) = "rlig" THEN 30 ELSE 0)
         + (IF Head(recs) = "calt" THEN 20 ELSE 0)
         + (IF Head(recs) \in {"kern", "curs"} THEN 10 ELSE 0)
         + (IF Head(recs) \in {"ss01", "ss02", "ss03", "ss04", "ss05",
                               "ss06", "ss07", "ss08", "ss09", "ss10"} THEN 5 ELSE 0)
         + ListedWeights(Tail(recs))

ListedBonus(n) ==
    CASE n > 50 -> 25
      [] n > 20 /\ n <= 50 -> 15
      [] n > 10 /\ n <= 20 -> 10
      [] OTHER -> 0

ScoreReturned ==
    /\ helper # None
    /\ helper.op = "calculate_ligature_score"
    /\ helper.result # None

RecordsOf(gsub) == IF gsub.kind = "FeatureList" THEN gsub.recs ELSE <<>>

\* C26: _calculate_ligature_score returns an integer >= 0, which is 0 for a
\* font without GSUB and otherwise the sum of the listed weights of all feature
\* records plus the glyph-name bonus.
C26_ScoreIsWeightsPlusBonus ==
    ScoreReturned =>
        /\ helper.result.score \in Nat
        /\ helper.font.gsub = NoTable => helper.result.score = 0
        /\ helper.font.gsub # NoTable =>
              helper.result.score = ListedWeights(RecordsOf(helper.font.gsub))
                                    + ListedBonus(helper.font.ligature_names)

\* C26 as amended: the score is also 0 for a GSUB table without feature list,
\* and the bonus is left out when the glyph set of the font cannot be read.
C26_ScoreOfFeatureList ==
    ScoreReturned =>
        /\ helper.result.score \in Nat
        /\ helper.font.gsub.kind # "FeatureList" => helper.result.score = 0
        /\ helper.font.gsub.kind = "FeatureList" =>
              helper.result.score = ListedWeights(helper.font.gsub.recs)
                                    + (IF helper.font.glyph_set_readable
                                       THEN ListedBonus(helper.font.ligature_names) ELSE 0)

C26_Witness ==
    /\ ScoreReturned
    /\ helper.font.gsub = FeatureList(<<"liga", "ss10">>)
    /\ helper.font.ligature_names = 11
    /\ helper.font.glyph_set_readable
    /\ helper.result.score = 115

\* C27: determine_optimal_font_order returns (font2, font1, True) exactly when
\* both fonts load and the score of font2 is strictly greater than the score
\* of font1, and (font1, font2, False) in every other case.
OrderReturned ==
    /\ helper # None
    /\ helper.op = "determine_optimal_font_order"
    /\ helper.result # None

C27_OptimalFontOrder ==
    OrderReturned =>
        LET swap == /\ helper.fault = "none"
                    /\ calculate_ligature_score(helper.font2) > calculate_ligature_score(helper.font1)
        IN  /\ swap => helper.result =
                  [base |-> "font2_path", secondary |-> "font1_path", should_swap |-> TRUE]
            /\ ~swap => helper.result =
                  [base |-> "font1_path", secondary |-> "font2_path", should_swap |-> FALSE]

\* two different fonts with the same score above zero keep their order
C27_Witness ==
    /\ OrderReturned
    /\ helper.fault = "none"
    /\ helper.font1 # helper.font2
    /\ calculate_ligature_score(helper.font1) = calculate_ligature_score(helper.font2)
    /\ calculate_ligature_score(helper.font1) > 0
    /\ ~helper.result.should_swap

\* C23: when the merged font and the ligature source both have a feature list,
\* _merge_ligature_features keeps the records of the merged font in place and
\* appends, in the order of the source, every source record whose tag is one
\* of liga, dlig, clig, rlig, hlig, calt and is not a tag of the merged font;
\* afterwards FeatureCount is the number of records.
C23_MissingLigatureFeaturesAppended ==
    (/\ helper # None
     /\ helper.op = "merge_ligature_features"
     /\ helper.result # None
     /\ helper.target_gsub.kind = "FeatureList"
     /\ helper.source_gsub.kind = "FeatureList")
        => LET target_recs == helper.target_gsub.recs
               absent(tag) == /\ tag \in {"liga", "dlig", "clig", "rlig", "hlig", "calt"}
                              /\ \A i \in 1..Len(target_recs) : target_recs[i] # tag
           IN  /\ helper.result.kind = "FeatureList"
               /\ helper.result.recs = target_recs \o SelectSeq(helper.source_gsub.recs, absent)
               /\ helper.result.FeatureCount = Len(helper.result.recs)

\* C24: restoration copies the GPOS table of the source into a merged font
\* that has none; when both have one, the merged font ends with the table of
\* the source if that one has strictly more feature records, and keeps its
\* own table otherwise.
C24_RicherGposWins ==
    (/\ helper # None
     /\ helper.op = "preserve_ligature_features"
     /\ helper.result # None
     /\ helper.source_font.gpos # NoTable)
        => IF helper.merged_font.gpos = NoTable
           THEN helper.result.gpos = helper.source_font.gpos
           ELSE IF helper.source_font.gpos.FeatureCount > helper.merged_font.gpos.FeatureCount
                THEN helper.result.gpos = helper.source_font.gpos
                ELSE helper.result.gpos = helper.merged_font.gpos

\* C25: no step of a strategy stage writes, replaces or removes one of the two
\* subset files the stage was given, and the copies the strip stage merges
\* have the unitsPerEm of the subset files, not the unified one.
C25_StagesLeaveInputFiles ==
    [][(pc \in {"exact", "unify_prepare", "unify_merge", "strip_prepare", "strip_merge"}) =>
          /\ tmp'["subset1"] = tmp["subset1"]
          /\ tmp'["subset2"] = tmp["subset2"]
          /\ (pc' = "strip_merge") =>
                /\ tmp'["simplified1"].upm = subset1.upm
                /\ tmp'["simplified2"].upm = subset2.upm]_vars

\* the unify stage rewrote unitsPerEm in its copies and failed afterwards; the
\* strip stage has loaded the two subset files again
C25_Witness ==
    /\ pc = "strip_merge"
    /\ "merge_unify" \in faults
    /\ subset1.upm # subset2.upm
    /\ tmp["subset1"] = subset1
    /\ tmp["subset2"] = subset2
    /\ tmp["simplified1"].upm = subset1.upm
    /\ tmp["simplified2"].upm = subset2.upm

\* C28: every entry of every range that get_selected_charsets returns is a
\* single character that the cmap of the selected font maps.
C28_SelectionsFromCmap ==
    \A side \in Sides :
        has_font_selected(sel[side]) =>
            LET selected == get_selected_charsets(sel[side].boxes)
            IN  \A i \in 1..Len(selected) : \A j \in 1..Len(selected[i][2]) :
                    /\ Len(selected[i][2][j]) = 1
                    /\ selected[i][2][j][1] \in sel[side].font.cmap

\* C29: whenever both selectors have a font, exactly one of them is marked as
\* the base font.
C29_ExactlyOneBase ==
    (has_font_selected(sel["left"]) /\ has_font_selected(sel["right"]))
        => (sel["left"].base # sel["right"].base)

\* C30: a worker is started only while none is running; the merge buttons are
\* disabled while a worker runs and while the progress dialog is up; a worker
\* that runs to its end emits finished exactly once and nothing else emits it;
\* once the signal is handled or the merge is cancelled the buttons are
\* enabled.
C30_OneWorkerAtATime ==
    [][/\ (worker' = "running" /\ request' # request) =>
              (worker # "running" /\ signals = <<>> /\ buttonsEnabled)
       /\ (worker' = "running" \/ progressShown') => ~buttonsEnabled'
       /\ (worker = "running" /\ worker' = "finished") => Len(signals') = Len(signals) + 1
       /\ (Len(signals') > Len(signals)) => (worker = "running" /\ worker' = "finished")
       /\ Len(signals') <= 1
       /\ (Len(signals') < Len(signals)) => (buttonsEnabled' /\ ~progressShown' /\ worker' # "running")
       /\ (progressShown /\ ~progressShown') => (buttonsEnabled' /\ worker' # "running")]_vars

\* a merge was started, its worker ran to the end, the signal was handled
C30_Witness ==
    /\ dialog = "critical: merge failed"
    /\ worker = "none"
    /\ signals = <<>>
    /\ buttonsEnabled
    /\ ~progressShown

====
